---- MODULE Spec2Model ----
(***************************************************************************)
(* Model of the GCS uploader (src/main.py): the single-file uploader       *)
(* GCSUploader.upload_file, the batch orchestrator                         *)
(* GCSUploader.upload_directory with its ThreadPoolExecutor, and the two   *)
(* click commands `upload` and `upload_dir` that wrap them.                *)
(*                                                                         *)
(* Strings are sequences of one-character strings.  A path is a sequence   *)
(* of components.  A call of upload_file is identified by its index in     *)
(* `calls`; for a batch that is also the index of the file in              *)
(* files_to_upload.                                                        *)
(***************************************************************************)
EXTENDS Integers, Sequences, FiniteSets, TLC

\* ------------------------------------------------------------------ bounds
MaxFiles == 3         \* regular files under the root, at most
MaxWorkers == 2       \* max_workers ranges over 0..MaxWorkers
MaxFairFiles == 2     \* regular files under the root in the fair specification
MaxPrefixLen == 2     \* characters of a prefix (key-mapping specification)
MaxDepth == 2         \* components of a relative path (key-mapping specification)
MaxNameLen == 2       \* characters of one path component (key-mapping specification)

\* ------------------------------------------------------- program constants
DefaultWorkers == 4   \* max_workers default

VARIABLES
    entry,            \* "upload" | "upload_dir" (click commands) | "api" (upload_directory called directly)
    bucketState,      \* the store's view of the bucket: "ok" | "missing" | "forbidden"
    pathKind,         \* what the path argument names on disk: "dir" | "file" | "missing"
    tree,             \* relative paths of the regular files under the root
    ossep,            \* os.sep of the platform: "/" or "\\"
    prefix,           \* prefix argument (a string)
    blob_opt,         \* --blob-name of `upload` (NoneStr when not given)
    make_public,      \* make_public / --public
    max_workers,      \* max_workers / --max-workers
    pc,               \* position of the main thread
    files_to_upload,  \* list of (file_path, blob_name) built by upload_directory
    calls,            \* arguments of every upload_file call started
    st,               \* per call: "queued" | "exists" | "write" | "public" | "done" | "counted"
    res,              \* per call: "none" | "True" | "False" | "Raised"
    wcalls,           \* per call: responses of the store to blob.upload_from_filename
    pcalls,           \* per call: responses of the store to blob.make_public
    threads,          \* worker threads the executor has spawned
    idle,             \* the executor's idle semaphore
    results,          \* the results dict of upload_directory
    ticks,            \* pbar.update(1) calls
    ret,              \* upload_directory: "none" | "returned" | "raised"
    retval,           \* the dict upload_directory returned
    exitCode          \* process exit status of a click command, -1 while running

vars == << entry, bucketState, pathKind, tree, ossep, prefix, blob_opt, make_public,
           max_workers, pc, files_to_upload, calls, st, res, wcalls, pcalls,
           threads, idle, results, ticks, ret, retval, exitCode >>

inputs == << entry, bucketState, pathKind, tree, ossep, prefix, blob_opt, make_public,
             max_workers >>

\* ------------------------------------------------------------ pure helpers
NoneStr == << "None" >>

ZeroResults == [success |-> 0, failed |-> 0, errors |-> << >>]

\* str.replace('\\', '/')
ReplaceBackslash(s) == [k \in DOMAIN s |-> IF s[k] = "\\" THEN "/" ELSE s[k]]

RECURSIVE PathStr(_, _)
\* str(relative_path): the components joined by os.sep
PathStr(p, sep) ==
    IF Len(p) = 0 THEN << >>
    ELSE IF Len(p) = 1 THEN p[1]
    ELSE p[1] \o << sep >> \o PathStr(Tail(p), sep)

\* blob_name of upload_directory
BlobName(pfx, rel, sep) ==
    IF pfx # << >> THEN ReplaceBackslash(pfx \o PathStr(rel, sep))
    ELSE ReplaceBackslash(PathStr(rel, sep))

\* Path.name: the last component
PathName(p) == p[Len(p)]

RECURSIVE Dirs(_)
Dirs(n) == IF n = 0 THEN << >> ELSE << << "d" >> >> \o Dirs(n - 1)

\* the i-th file of the tree used by the batch specification: d/d/.../a
TreeFile(i) == Dirs(i - 1) \o << << "a" >> >>

TreeOf(n) == [i \in 1..n |-> TreeFile(i)]

Running == {i \in DOMAIN st : st[i] \in {"exists", "write", "public"}}
Queued == {i \in DOMAIN st : st[i] = "queued"}
Settled == {i \in DOMAIN st : st[i] \in {"done", "counted"}}

Min(S) == CHOOSE x \in S : \A y \in S : x <= y


\* Aggregate without the except clause of the loop: a raised future is not counted
Aggregate_DropRaised(r, outcome, file_path) ==
    IF outcome = "True" THEN [r EXCEPT !.success = @ + 1]
    ELSE IF outcome = "False"
         THEN [r EXCEPT !.failed = @ + 1,
                        !.errors = Append(@, << "Failed to upload", file_path >>)]
         ELSE r

\* Aggregate whose except clause counts the failure without an errors entry
Aggregate_NoEntryOnRaise(r, outcome, file_path) ==
    IF outcome = "True" THEN [r EXCEPT !.success = @ + 1]
    ELSE IF outcome = "False"
         THEN [r EXCEPT !.failed = @ + 1,
                        !.errors = Append(@, << "Failed to upload", file_path >>)]
         ELSE [r EXCEPT !.failed = @ + 1]

\* the three outcomes of one completed future, folded into the results dict
Aggregate(r, outcome, file_path) ==
    IF outcome = "True" THEN [r EXCEPT !.success = @ + 1]
    ELSE IF outcome = "False"
         THEN [r EXCEPT !.failed = @ + 1,
                        !.errors = Append(@, << "Failed to upload", file_path >>)]
         ELSE [r EXCEPT !.failed = @ + 1,
                        !.errors = Append(@, << "Error uploading", file_path >>)]

\* responses the store can give to blob.upload_from_filename
WriteResponses ==
    IF bucketState = "missing" THEN {"NotFound"}
    ELSE IF bucketState = "forbidden" THEN {"Forbidden"}
    ELSE {"ok", "Transfer"}

\* responses the store can give to blob.make_public
PublicResponses == {"ok", "Forbidden"}

\* GCSUploader.bucket_exists: True only when bucket.reload() does not raise
bucket_exists == bucketState = "ok"

\* ------------------------------------------------------------------- Init
Init ==
    /\ entry \in {"upload", "upload_dir", "api"}
    /\ bucketState \in {"ok", "missing", "forbidden"}
    /\ pathKind \in {"dir", "file", "missing"}
    /\ ossep = "/"
    /\ make_public \in BOOLEAN
    /\ IF entry = "upload"
       THEN /\ tree = TreeOf(1)
            /\ prefix = << >>
            /\ blob_opt \in {NoneStr, << "k" >>}
            /\ max_workers = DefaultWorkers
       ELSE /\ tree \in {TreeOf(n) : n \in 0..MaxFiles}
            /\ prefix = << "p", "/" >>
            /\ blob_opt = NoneStr
            /\ max_workers \in 0..MaxWorkers
    /\ pc = IF entry = "api" THEN "ud_check" ELSE "click"
    /\ files_to_upload = << >>
    /\ calls = << >>
    /\ st = << >>
    /\ res = << >>
    /\ wcalls = << >>
    /\ pcalls = << >>
    /\ threads = 0
    /\ idle = 0
    /\ results = ZeroResults
    /\ ticks = 0
    /\ ret = "none"
    /\ retval = ZeroResults
    /\ exitCode = -1

\* ------------------------------------------------------- click commands
Exit(code) ==
    /\ pc' = "exit"
    /\ exitCode' = code

\* click.Path(exists=True) of `upload`, click.Path(exists=True, file_okay=False)
\* of `upload_dir`: a bad path argument ends the process with a usage error
ClickValidate ==
    /\ pc = "click"
    /\ IF \/ pathKind = "missing"
          \/ (entry = "upload_dir" /\ pathKind # "dir")
       THEN Exit(2)
       ELSE pc' = "cmd" /\ UNCHANGED exitCode
    /\ UNCHANGED << inputs, files_to_upload, calls, st, res, wcalls, pcalls, threads,
                    idle, results, ticks, ret, retval >>

\* `upload` up to the call of upload_file
upload_begin ==
    /\ pc = "cmd"
    /\ entry = "upload"
    /\ \/ /\ Exit(1)                      \* GCSUploader(...) raised
          /\ UNCHANGED << calls, st, res, wcalls, pcalls >>
       \/ /\ ~bucket_exists
          /\ Exit(1)
          /\ UNCHANGED << calls, st, res, wcalls, pcalls >>
       \/ /\ bucket_exists
          /\ calls' = << [file_path |-> 1, blob_name |-> blob_opt] >>
          /\ st' = << "exists" >>
          /\ res' = << "none" >>
          /\ wcalls' = << << >> >>
          /\ pcalls' = << << >> >>
          /\ pc' = "uf_call"
          /\ UNCHANGED exitCode
    /\ UNCHANGED << inputs, files_to_upload, threads, idle, results, ticks, ret, retval >>

\* `upload` after upload_file came back
upload_end ==
    /\ pc = "uf_call"
    /\ st[1] = "done"
    /\ IF res[1] = "True" THEN Exit(0) ELSE Exit(1)
    /\ UNCHANGED << inputs, files_to_upload, calls, st, res, wcalls, pcalls, threads,
                    idle, results, ticks, ret, retval >>

\* upload_dir_begin without the bucket_exists check
upload_dir_begin_NoBucketCheck ==
    /\ pc = "cmd"
    /\ entry = "upload_dir"
    /\ \/ Exit(1)
       \/ pc' = "ud_check" /\ UNCHANGED exitCode
    /\ UNCHANGED << inputs, files_to_upload, calls, st, res, wcalls, pcalls, threads,
                    idle, results, ticks, ret, retval >>

\* `upload_dir` up to the call of upload_directory
upload_dir_begin ==
    /\ pc = "cmd"
    /\ entry = "upload_dir"
    /\ \/ Exit(1)                         \* GCSUploader(...) raised
       \/ ~bucket_exists /\ Exit(1)
       \/ bucket_exists /\ pc' = "ud_check" /\ UNCHANGED exitCode
    /\ UNCHANGED << inputs, files_to_upload, calls, st, res, wcalls, pcalls, threads,
                    idle, results, ticks, ret, retval >>

\* upload_dir_end without the results['failed'] > 0 check
upload_dir_end_IgnoreFailed ==
    /\ pc = "ud_done"
    /\ entry = "upload_dir"
    /\ IF ret = "raised" THEN Exit(1) ELSE Exit(0)
    /\ UNCHANGED << inputs, files_to_upload, calls, st, res, wcalls, pcalls, threads,
                    idle, results, ticks, ret, retval >>

\* `upload_dir` after upload_directory came back
upload_dir_end ==
    /\ pc = "ud_done"
    /\ entry = "upload_dir"
    /\ IF ret = "raised" THEN Exit(1)
       ELSE IF retval.failed > 0 THEN Exit(1)
       ELSE Exit(0)
    /\ UNCHANGED << inputs, files_to_upload, calls, st, res, wcalls, pcalls, threads,
                    idle, results, ticks, ret, retval >>


\* ------------------------------------------------------------ upload_file
\* upload_file returns r (or raises, r = "Raised"): the call is over.  In a
\* batch the worker thread then releases the executor's idle semaphore.
Finish(i, r) ==
    /\ st' = [st EXCEPT ![i] = "done"]
    /\ res' = [res EXCEPT ![i] = r]
    /\ idle' = IF entry = "upload" THEN idle ELSE idle + 1

\* UF_Exists that notices the missing file only after trying to write it
UF_Exists_CheckAfterWrite(i) ==
    /\ st[i] = "exists"
    /\ \/ /\ Finish(i, "False")
          /\ wcalls' = [wcalls EXCEPT ![i] = Append(@, "Transfer")]
          /\ UNCHANGED calls
       \/ /\ Finish(i, "Raised")
          /\ UNCHANGED << calls, wcalls >>
       \/ /\ st' = [st EXCEPT ![i] = "write"]
          /\ calls' = [calls EXCEPT ![i].blob_name =
                          IF @ = NoneStr THEN PathName(tree[calls[i].file_path]) ELSE @]
          /\ UNCHANGED << res, idle, wcalls >>
    /\ UNCHANGED << inputs, pc, files_to_upload, pcalls, threads, results,
                    ticks, ret, retval, exitCode >>

\* Path(local_file_path).exists(), then the default blob name
UF_Exists(i) ==
    /\ st[i] = "exists"
    /\ \/ /\ Finish(i, "False")           \* the file is gone
          /\ UNCHANGED calls
       \/ /\ Finish(i, "Raised")          \* exists() raised OSError
          /\ UNCHANGED calls
       \/ /\ st' = [st EXCEPT ![i] = "write"]
          /\ calls' = [calls EXCEPT ![i].blob_name =
                          IF @ = NoneStr THEN PathName(tree[calls[i].file_path]) ELSE @]
          /\ UNCHANGED << res, idle >>
    /\ UNCHANGED << inputs, pc, files_to_upload, wcalls, pcalls, threads, results,
                    ticks, ret, retval, exitCode >>

\* UF_Write that sends the object write a second time
UF_Write_Twice(i) ==
    /\ st[i] = "write"
    /\ \/ /\ Finish(i, "False")
          /\ UNCHANGED wcalls
       \/ /\ ~(entry = "upload" /\ pathKind = "dir")
          /\ \E o \in WriteResponses :
                /\ wcalls' = [wcalls EXCEPT ![i] = Append(Append(@, o), o)]
                /\ IF o = "ok"
                   THEN IF make_public
                        THEN /\ st' = [st EXCEPT ![i] = "public"]
                             /\ UNCHANGED << res, idle >>
                        ELSE Finish(i, "True")
                   ELSE Finish(i, "False")
    /\ UNCHANGED << inputs, pc, files_to_upload, calls, pcalls, threads, results,
                    ticks, ret, retval, exitCode >>

\* UF_Write of a worker that counts its own success in the shared results
UF_Write_WorkerCounts(i) ==
    /\ st[i] = "write"
    /\ \/ /\ Finish(i, "False")
          /\ UNCHANGED << wcalls, results >>
       \/ /\ ~(entry = "upload" /\ pathKind = "dir")
          /\ \E o \in WriteResponses :
                /\ wcalls' = [wcalls EXCEPT ![i] = Append(@, o)]
                /\ IF o = "ok"
                   THEN IF make_public
                        THEN /\ st' = [st EXCEPT ![i] = "public"]
                             /\ UNCHANGED << res, idle, results >>
                        ELSE /\ Finish(i, "True")
                             /\ results' = [results EXCEPT !.success = @ + 1]
                   ELSE Finish(i, "False") /\ UNCHANGED results
    /\ UNCHANGED << inputs, pc, files_to_upload, calls, pcalls, threads,
                    ticks, ret, retval, exitCode >>

\* UF_Write without the generic except clause: a transfer error propagates
UF_Write_RaiseTransfer(i) ==
    /\ st[i] = "write"
    /\ \/ /\ Finish(i, "False")
          /\ UNCHANGED wcalls
       \/ /\ ~(entry = "upload" /\ pathKind = "dir")
          /\ \E o \in WriteResponses :
                /\ wcalls' = [wcalls EXCEPT ![i] = Append(@, o)]
                /\ IF o = "ok"
                   THEN IF make_public
                        THEN /\ st' = [st EXCEPT ![i] = "public"]
                             /\ UNCHANGED << res, idle >>
                        ELSE Finish(i, "True")
                   ELSE IF o = "Transfer" THEN Finish(i, "Raised")
                   ELSE Finish(i, "False")
    /\ UNCHANGED << inputs, pc, files_to_upload, calls, pcalls, threads, results,
                    ticks, ret, retval, exitCode >>

\* the try block up to blob.upload_from_filename, with its except clauses
UF_Write(i) ==
    /\ st[i] = "write"
    /\ \/ /\ Finish(i, "False")           \* open() of the local file raised
          /\ UNCHANGED wcalls
       \/ /\ ~(entry = "upload" /\ pathKind = "dir")
          /\ \E o \in WriteResponses :
                /\ wcalls' = [wcalls EXCEPT ![i] = Append(@, o)]
                /\ IF o = "ok"
                   THEN IF make_public
                        THEN /\ st' = [st EXCEPT ![i] = "public"]
                             /\ UNCHANGED << res, idle >>
                        ELSE Finish(i, "True")
                   ELSE Finish(i, "False")
    /\ UNCHANGED << inputs, pc, files_to_upload, calls, pcalls, threads, results,
                    ticks, ret, retval, exitCode >>

\* UF_Public with a failure of make_public swallowed
UF_Public_Swallow(i) ==
    /\ st[i] = "public"
    /\ \E o \in PublicResponses :
          /\ pcalls' = [pcalls EXCEPT ![i] = Append(@, o)]
          /\ Finish(i, "True")
    /\ UNCHANGED << inputs, pc, files_to_upload, calls, wcalls, threads, results,
                    ticks, ret, retval, exitCode >>

\* blob.make_public() inside the same try block
UF_Public(i) ==
    /\ st[i] = "public"
    /\ \E o \in PublicResponses :
          /\ pcalls' = [pcalls EXCEPT ![i] = Append(@, o)]
          /\ IF o = "ok" THEN Finish(i, "True") ELSE Finish(i, "False")
    /\ UNCHANGED << inputs, pc, files_to_upload, calls, wcalls, threads, results,
                    ticks, ret, retval, exitCode >>

\* ------------------------------------------------------- upload_directory
Return(kind, value) ==
    /\ ret' = kind
    /\ retval' = value
    /\ pc' = "ud_done"

\* UD_CheckDir raising for a root that is no directory
UD_CheckDir_Raises ==
    /\ pc = "ud_check"
    /\ IF pathKind # "dir"
       THEN Return("raised", ZeroResults)
       ELSE pc' = "ud_enum" /\ UNCHANGED << ret, retval >>
    /\ UNCHANGED << inputs, files_to_upload, calls, st, res, wcalls, pcalls, threads,
                    idle, results, ticks, exitCode >>

\* the directory check
UD_CheckDir ==
    /\ pc = "ud_check"
    /\ IF pathKind # "dir"
       THEN Return("returned", ZeroResults)
       ELSE pc' = "ud_enum" /\ UNCHANGED << ret, retval >>
    /\ UNCHANGED << inputs, files_to_upload, calls, st, res, wcalls, pcalls, threads,
                    idle, results, ticks, exitCode >>

\* UD_Enumerate treating a directory without files as an error
UD_Enumerate_EmptyRaises ==
    /\ pc = "ud_enum"
    /\ files_to_upload' =
          [i \in 1..Len(tree) |->
              [file_path |-> i, blob_name |-> BlobName(prefix, tree[i], ossep)]]
    /\ IF Len(tree) = 0
       THEN Return("raised", ZeroResults)
       ELSE pc' = "ud_pool" /\ UNCHANGED << ret, retval >>
    /\ UNCHANGED << inputs, calls, st, res, wcalls, pcalls, threads, idle, results,
                    ticks, exitCode >>

\* the rglob loop that builds files_to_upload, and the empty-list return
UD_Enumerate ==
    /\ pc = "ud_enum"
    /\ files_to_upload' =
          [i \in 1..Len(tree) |->
              [file_path |-> i, blob_name |-> BlobName(prefix, tree[i], ossep)]]
    /\ IF Len(tree) = 0
       THEN Return("returned", ZeroResults)
       ELSE pc' = "ud_pool" /\ UNCHANGED << ret, retval >>
    /\ UNCHANGED << inputs, calls, st, res, wcalls, pcalls, threads, idle, results,
                    ticks, exitCode >>

\* results = {...}; ThreadPoolExecutor(max_workers=max_workers), which raises
\* ValueError unless max_workers > 0
UD_Pool ==
    /\ pc = "ud_pool"
    /\ results' = ZeroResults
    /\ IF max_workers <= 0
       THEN Return("raised", ZeroResults)
       ELSE pc' = "ud_submit" /\ UNCHANGED << ret, retval >>
    /\ UNCHANGED << inputs, files_to_upload, calls, st, res, wcalls, pcalls, threads,
                    idle, ticks, exitCode >>

\* AdjustThreadCount without the max_workers limit
AdjustThreadCount_Unbounded(th, idl, mw) ==
    IF idl > 0 THEN << th, idl - 1 >> ELSE << th + 1, idl >>

\* executor.submit spawns a worker thread when no worker is idle and fewer
\* than max_workers exist: << threads, idle >> after one submit
AdjustThreadCount(th, idl, mw) ==
    IF idl > 0 THEN << th, idl - 1 >>
    ELSE IF th < mw THEN << th + 1, idl >>
    ELSE << th, idl >>

\* one executor.submit(self.upload_file, ...) of the dict comprehension
UD_Submit ==
    /\ pc = "ud_submit"
    /\ LET i == Len(calls) + 1
           adj == AdjustThreadCount(threads, idle, max_workers)
       IN /\ calls' = Append(calls, files_to_upload[i])
          /\ st' = Append(st, "queued")
          /\ res' = Append(res, "none")
          /\ wcalls' = Append(wcalls, << >>)
          /\ pcalls' = Append(pcalls, << >>)
          /\ threads' = adj[1]
          /\ idle' = adj[2]
          /\ pc' = IF i = Len(files_to_upload) THEN "ud_loop" ELSE "ud_submit"
    /\ UNCHANGED << inputs, files_to_upload, results, ticks, ret, retval, exitCode >>

\* CanStart of a pool that stops dispatching once a task has failed
CanStart_FailFast(i) ==
    /\ Queued # {}
    /\ i = Min(Queued)
    /\ Cardinality(Running) < threads
    /\ \A j \in DOMAIN res : res[j] \in {"none", "True"}

\* a worker thread takes the oldest queued work item when a thread is free
CanStart(i) ==
    /\ Queued # {}
    /\ i = Min(Queued)
    /\ Cardinality(Running) < threads

\* a worker thread of the executor begins self.upload_file for call i
WorkerStart(i) ==
    /\ entry # "upload"
    /\ CanStart(i)
    /\ st' = [st EXCEPT ![i] = "exists"]
    /\ UNCHANGED << inputs, pc, files_to_upload, calls, res, wcalls, pcalls, threads,
                    idle, results, ticks, ret, retval, exitCode >>

\* UD_Aggregate with the progress update inside the try block: a raised
\* future skips it
UD_Aggregate_NoTickOnRaise(i) ==
    /\ pc = "ud_loop"
    /\ st[i] = "done"
    /\ results' = Aggregate(results, res[i], calls[i].file_path)
    /\ st' = [st EXCEPT ![i] = "counted"]
    /\ pc' = IF res[i] = "Raised" THEN "ud_loop" ELSE "ud_tick"
    /\ UNCHANGED << inputs, files_to_upload, calls, res, wcalls, pcalls, threads, idle,
                    ticks, ret, retval, exitCode >>

\* UD_Aggregate without the except clause: a raised future ends upload_directory
UD_Aggregate_Propagate(i) ==
    /\ pc = "ud_loop"
    /\ st[i] = "done"
    /\ st' = [st EXCEPT ![i] = "counted"]
    /\ IF res[i] = "Raised"
       THEN Return("raised", ZeroResults) /\ UNCHANGED results
       ELSE /\ results' = Aggregate(results, res[i], calls[i].file_path)
            /\ pc' = "ud_tick"
            /\ UNCHANGED << ret, retval >>
    /\ UNCHANGED << inputs, files_to_upload, calls, res, wcalls, pcalls, threads, idle,
                    ticks, exitCode >>

\* one iteration of the as_completed loop up to the progress update
UD_Aggregate(i) ==
    /\ pc = "ud_loop"
    /\ st[i] = "done"
    /\ results' = Aggregate(results, res[i], calls[i].file_path)
    /\ st' = [st EXCEPT ![i] = "counted"]
    /\ pc' = "ud_tick"
    /\ UNCHANGED << inputs, files_to_upload, calls, res, wcalls, pcalls, threads, idle,
                    ticks, ret, retval, exitCode >>

\* pbar.update(1)
UD_Tick ==
    /\ pc = "ud_tick"
    /\ ticks' = ticks + 1
    /\ pc' = "ud_loop"
    /\ UNCHANGED << inputs, files_to_upload, calls, st, res, wcalls, pcalls, threads,
                    idle, results, ret, retval, exitCode >>

\* as_completed is exhausted: every future was yielded
LoopDone == \A i \in DOMAIN st : st[i] = "counted"

\* UD_Return leaving the loop at the first failure, without waiting for the pool
UD_Return_OnFirstFailure ==
    /\ pc = "ud_loop"
    /\ LoopDone \/ results.failed > 0
    /\ Return("returned", results)
    /\ UNCHANGED << inputs, files_to_upload, calls, st, res, wcalls, pcalls, threads,
                    idle, results, ticks, exitCode >>

\* UD_Return after the first processed future, without waiting for the pool
UD_Return_AfterFirst ==
    /\ pc = "ud_loop"
    /\ \E i \in DOMAIN st : st[i] = "counted"
    /\ Return("returned", results)
    /\ UNCHANGED << inputs, files_to_upload, calls, st, res, wcalls, pcalls, threads,
                    idle, results, ticks, exitCode >>

\* the with blocks end (executor.shutdown(wait=True)) and results is returned
UD_Return ==
    /\ pc = "ud_loop"
    /\ LoopDone
    /\ Queued = {} /\ Running = {}
    /\ Return("returned", results)
    /\ UNCHANGED << inputs, files_to_upload, calls, st, res, wcalls, pcalls, threads,
                    idle, results, ticks, exitCode >>

\* ------------------------------------------------------------------- Next
Next ==
    \/ ClickValidate
    \/ upload_begin
    \/ upload_end
    \/ upload_dir_begin
    \/ upload_dir_end
    \/ \E i \in DOMAIN st : UF_Exists(i)
    \/ \E i \in DOMAIN st : UF_Write(i)
    \/ \E i \in DOMAIN st : UF_Public(i)
    \/ UD_CheckDir
    \/ UD_Enumerate
    \/ UD_Pool
    \/ UD_Submit
    \/ \E i \in DOMAIN st : WorkerStart(i)
    \/ \E i \in DOMAIN st : UD_Aggregate(i)
    \/ UD_Tick
    \/ UD_Return

Spec == Init /\ [][Next]_vars


\* the initial states whose tree holds at most MaxFairFiles files
FairInit == Init /\ Len(tree) <= MaxFairFiles

\* the same program under fair scheduling: every store call returns or raises
\* and every thread that can take a step eventually takes one
FairSpec == FairInit /\ [][Next]_vars /\ WF_vars(Next)

\* ------------------------------------------- key-mapping specification
PrefixChars == {"p", "/", "\\"}

\* characters a file name may hold: anything but a separator of the platform
NameChars(sep) == IF sep = "/" THEN {"a", "\\"} ELSE {"a"}

StringsUpTo(chars, n) == UNION {[1..k -> chars] : k \in 0..n}

Names(sep) == StringsUpTo(NameChars(sep), MaxNameLen) \ {<< >>}

RelPaths(sep) == UNION {[1..k -> Names(sep)] : k \in 1..MaxDepth}

\* upload_directory called on a root holding one file, for every prefix,
\* relative path and platform separator within the bounds
KeyInit ==
    /\ entry = "api"
    /\ bucketState = "ok"
    /\ pathKind \in {"dir", "missing"}
    /\ ossep \in {"/", "\\"}
    /\ tree \in {<< rel >> : rel \in RelPaths(ossep)}
    /\ prefix \in StringsUpTo(PrefixChars, MaxPrefixLen)
    /\ blob_opt = NoneStr
    /\ make_public = FALSE
    /\ max_workers = DefaultWorkers
    /\ pc = "ud_check"
    /\ files_to_upload = << >>
    /\ calls = << >>
    /\ st = << >>
    /\ res = << >>
    /\ wcalls = << >>
    /\ pcalls = << >>
    /\ threads = 0
    /\ idle = 0
    /\ results = ZeroResults
    /\ ticks = 0
    /\ ret = "none"
    /\ retval = ZeroResults
    /\ exitCode = -1

KeyNext ==
    \/ UD_CheckDir
    \/ UD_Enumerate

KeySpec == KeyInit /\ [][KeyNext]_vars


\* ================================================================ claims
\* the store accepted everything call i asked of it: the object write and,
\* when requested, the visibility change
StoreAccepted(i) ==
    /\ wcalls[i] = << "ok" >>
    /\ make_public => pcalls[i] = << "ok" >>

\* the object write of call i succeeded and its visibility change failed
PublicFailed(i) ==
    /\ wcalls[i] = << "ok" >>
    /\ Len(pcalls[i]) = 1
    /\ pcalls[i][1] # "ok"

\* entries of results.errors about the file of call i
ErrorsFor(i) ==
    {k \in DOMAIN results.errors : results.errors[k][2] = calls[i].file_path}

\* C1: when upload_directory returns, success + failed equals the number of
\* regular files enumerated under the root, which is the number of tasks
\* submitted to the pool, whatever the outcomes of the uploads were.
C1_CountsSumToTasks ==
    ret = "returned" =>
        /\ retval.success + retval.failed = Len(calls)
        /\ Len(calls) = Len(files_to_upload)
        /\ Len(files_to_upload) = IF pathKind = "dir" THEN Len(tree) ELSE 0

C1_Witness ==
    /\ ret = "returned"
    /\ retval.success >= 1
    /\ \E i, j \in DOMAIN res : res[i] = "Raised" /\ res[j] = "False"

\* C2: a task that fails (returns False or raises) leaves the other tasks of
\* the batch alone: when upload_directory returns every task has run and been
\* counted, and success is exactly the number of tasks whose upload the store
\* accepted.
C2_FailureLeavesOthersAlone ==
    (ret = "returned" /\ files_to_upload # << >>) =>
        /\ Len(calls) = Len(files_to_upload)
        /\ \A i \in DOMAIN st :
              /\ st[i] = "counted"
              /\ StoreAccepted(i) <=> res[i] = "True"
        /\ retval.success = Cardinality({i \in DOMAIN st : StoreAccepted(i)})

C2_Witness ==
    /\ ret = "returned"
    /\ max_workers = 1
    /\ Len(calls) >= 3
    /\ res[1] = "Raised"
    /\ \A j \in DOMAIN res : j > 1 => res[j] = "True"
    /\ retval.success = Len(calls) - 1

\* C3: in a batch with max_workers = N >= 1, at most N calls of upload_file
\* are executing at any moment; the other submitted tasks are queued.
C3_ConcurrencyBound ==
    (entry # "upload" /\ max_workers >= 1) =>
        /\ Cardinality(Running) <= max_workers
        /\ threads <= max_workers

C3_Witness ==
    /\ max_workers = 2
    /\ Cardinality(Running) = 2
    /\ Queued # {}

\* C4: under fair scheduling every submitted task eventually has exactly one
\* outcome, which never changes afterwards, and upload_directory eventually
\* returns once it has begun to submit, whatever other tasks do.
C4_EveryTaskSettles ==
    /\ \A i \in 1..MaxFairFiles :
          [](i \in DOMAIN st =>
                <>(i \in DOMAIN st /\ st[i] \in {"done", "counted"} /\ res[i] # "none"))
    /\ [](pc = "ud_submit" => <>(ret = "returned"))
    /\ [][\A i \in DOMAIN res : res[i] # "none" => res'[i] = res[i]]_vars

C4_Witness ==
    /\ ret = "returned"
    /\ max_workers = 1
    /\ Len(calls) >= 2
    /\ \E i, j \in DOMAIN res : i < j /\ res[i] = "Raised" /\ res[j] = "True"

\* C5: when upload_directory has returned no task is queued or in flight, and
\* from then on no upload_file call of the batch moves and no store call is
\* made.
C5_DrainedAtReturn ==
    /\ [](ret = "returned" =>
            /\ Queued = {}
            /\ Running = {}
            /\ Len(calls) = Len(files_to_upload))
    /\ [][ret = "returned" => (st' = st /\ wcalls' = wcalls /\ pcalls' = pcalls)]_vars

C5_Witness ==
    /\ ret = "returned"
    /\ threads = 2
    /\ Len(calls) >= 3
    /\ \E i \in DOMAIN wcalls : wcalls[i] # << >>

\* C6 as stated: with the destination bucket missing, no object write is ever
\* attempted and a batch that returns has counted every file as failed.
C6_NoWriteWhenBucketMissing ==
    bucketState = "missing" =>
        /\ \A i \in DOMAIN wcalls : wcalls[i] = << >>
        /\ (ret = "returned" /\ pathKind = "dir") => retval.failed = Len(tree)

\* C6 amended: with the destination bucket missing, the upload_dir command
\* ends with a non-zero status without calling upload_directory, so no task
\* exists and no object write is attempted; upload_directory called directly
\* makes no bucket check: each task attempts at most one object write, the
\* store answers NotFound, and every task is counted in failed.
C6_ShortCircuitInCommandOnly ==
    bucketState = "missing" =>
        /\ entry = "upload_dir" =>
              /\ calls = << >>
              /\ ret = "none"
              /\ pc = "exit" => exitCode # 0
        /\ entry = "api" =>
              /\ \A i \in DOMAIN wcalls :
                    /\ wcalls[i] \in {<< >>, << "NotFound" >>}
                    /\ pcalls[i] = << >>
                    /\ res[i] # "True"
              /\ ret = "returned" =>
                    /\ retval.success = 0
                    /\ retval.failed = Len(calls)

C6_Witness ==
    /\ bucketState = "missing"
    /\ entry = "upload_dir"
    /\ pathKind = "dir"
    /\ Len(tree) >= 2
    /\ pc = "exit"
    /\ exitCode = 1

\* C7 as stated: for a root that is missing or no directory, upload_directory
\* ends with an error, not with the value it returns for an empty directory.
C7_MissingRootIsAnError ==
    (entry = "api" /\ pc = "ud_done" /\ pathKind # "dir") =>
        (ret = "raised" \/ retval # ZeroResults)

\* C7 amended: for a root that is missing or no directory, upload_directory
\* returns {success: 0, failed: 0, errors: []} without enumerating or
\* dispatching anything, which is the value it returns for an existing
\* directory without files; only the upload_dir command tells the cases
\* apart, rejecting such a path with exit status 2 before the upload starts.
C7_MissingRootReturnsZeroes ==
    /\ (ret # "none" /\ pathKind # "dir") =>
          /\ ret = "returned"
          /\ retval = ZeroResults
          /\ files_to_upload = << >>
          /\ calls = << >>
    /\ (ret # "none" /\ pathKind = "dir" /\ Len(tree) = 0) =>
          /\ ret = "returned"
          /\ retval = ZeroResults
          /\ calls = << >>
    /\ (entry = "upload_dir" /\ pathKind # "dir" /\ pc = "exit") =>
          /\ exitCode = 2
          /\ ret = "none"

C7_Witness ==
    /\ entry = "api"
    /\ pathKind = "missing"
    /\ Len(tree) >= 1
    /\ ret = "returned"
    /\ retval = ZeroResults

\* C8: a call whose object write succeeded and whose visibility change failed
\* returns False; in a batch it is counted in failed with exactly one entry in
\* errors, and success counts only calls that returned True.
C8_PublicFailureIsFailure ==
    \A i \in DOMAIN st :
        PublicFailed(i) =>
            /\ make_public
            /\ st[i] \in {"done", "counted"}
            /\ res[i] = "False"
            /\ (entry # "upload" /\ st[i] = "counted") =>
                  /\ Cardinality(ErrorsFor(i)) = 1
                  /\ \A k \in ErrorsFor(i) : results.errors[k][1] = "Failed to upload"
                  /\ results.failed >= 1
                  /\ results.success =
                        Cardinality({j \in DOMAIN st : st[j] = "counted" /\ res[j] = "True"})
                  /\ results.failed =
                        Cardinality({j \in DOMAIN st : st[j] = "counted" /\ res[j] # "True"})

C8_Witness ==
    /\ ret = "returned"
    /\ \E i \in DOMAIN st : PublicFailed(i) /\ st[i] = "counted"
    /\ \E j \in DOMAIN st : StoreAccepted(j)

\* every file of the command was uploaded: the store accepted each of them
AllUploaded ==
    /\ bucket_exists
    /\ IF entry = "upload"
       THEN calls # << >> /\ StoreAccepted(1)
       ELSE /\ ret = "returned"
            /\ Len(calls) = Len(tree)
            /\ \A i \in DOMAIN calls : StoreAccepted(i)

\* some file of the command failed
SomeFailed ==
    \/ \E i \in DOMAIN res : res[i] \in {"False", "Raised"}
    \/ ret = "returned" /\ retval.failed > 0

\* C9: a click command that has ended has status 0 when the bucket exists and
\* every file was uploaded, and a non-zero status when the bucket is missing
\* or inaccessible or some file failed; status 0 means nothing failed.
C9_ExitStatus ==
    pc = "exit" =>
        /\ AllUploaded => exitCode = 0
        /\ ~bucket_exists => exitCode # 0
        /\ SomeFailed => exitCode # 0
        /\ exitCode = 0 => (bucket_exists /\ \A i \in DOMAIN res : res[i] = "True")

C9_Witness ==
    /\ pc = "exit"
    /\ entry = "upload_dir"
    /\ exitCode = 1
    /\ retval.failed = 1
    /\ retval.success >= 2

\* str(relative_path) with only the separator of the platform replaced by '/'
NormalizeSep(s, sep) == [k \in DOMAIN s |-> IF s[k] = sep THEN "/" ELSE s[k]]

\* C10: the destination key of every enumerated file is the prefix, unchanged,
\* followed by the relative path with only its platform separators replaced
\* by '/'.
C10_KeyIsPrefixThenNormalizedPath ==
    \A i \in DOMAIN files_to_upload :
        files_to_upload[i].blob_name =
            prefix \o NormalizeSep(PathStr(tree[i], ossep), ossep)


\* why call i failed, read off what happened to it: the store's answer to the
\* object write or to the visibility change, or a local failure before any
\* store call (the file is gone or cannot be opened); "none" when it did not
\* fail that way
FailureKind(i) ==
    IF wcalls[i] # << >> /\ wcalls[i][Len(wcalls[i])] = "NotFound" THEN "BucketNotFound"
    ELSE IF wcalls[i] # << >> /\ wcalls[i][Len(wcalls[i])] = "Forbidden" THEN "AccessDenied"
    ELSE IF wcalls[i] # << >> /\ wcalls[i][Len(wcalls[i])] = "Transfer" THEN "TransferError"
    ELSE IF pcalls[i] # << >> /\ pcalls[i][Len(pcalls[i])] = "Forbidden" THEN "AccessDenied"
    ELSE IF wcalls[i] = << >> /\ res[i] = "False" THEN "NotFoundLocal"
    ELSE "none"

\* C11 as stated: two settled calls that failed for different kinds of reason
\* have different outcomes.
C11_KindsGiveDifferentOutcomes ==
    \A i, j \in Settled :
        (/\ FailureKind(i) # "none"
         /\ FailureKind(j) # "none"
         /\ FailureKind(i) # FailureKind(j)) => res[i] # res[j]

\* C11 amended: a failed upload is reported as failure without its kind:
\* upload_file returns False for a vanished file, a missing bucket, a denied
\* access and any other store error alike, and in a batch each such task gets
\* the same errors entry, "Failed to upload" with its path.
C11_FailureIsKindless ==
    \A i \in Settled :
        FailureKind(i) # "none" =>
            /\ res[i] = "False"
            /\ (entry # "upload" /\ st[i] = "counted") =>
                  /\ Cardinality(ErrorsFor(i)) = 1
                  /\ \A k \in ErrorsFor(i) :
                        results.errors[k] = << "Failed to upload", calls[i].file_path >>

C11_Witness ==
    /\ ret = "returned"
    /\ \E i, j, k \in DOMAIN st :
          /\ FailureKind(i) = "TransferError"
          /\ FailureKind(j) = "AccessDenied"
          /\ FailureKind(k) = "NotFoundLocal"
    /\ retval.failed = 3

\* C12: results.errors always holds one entry per failed task, and it grows
\* only at its end, by the entry of the task whose completion is being
\* processed: the entries are in processing order.
C12_ErrorsInProcessingOrder ==
    /\ [](Len(results.errors) = results.failed)
    /\ [][\/ results.errors' = results.errors
          \/ \E i \in DOMAIN st :
                /\ st[i] = "done"
                /\ st'[i] = "counted"
                /\ res[i] # "True"
                /\ \E tag \in {"Failed to upload", "Error uploading"} :
                      results.errors' =
                          Append(results.errors, << tag, calls[i].file_path >>)]_vars

C12_Witness ==
    /\ ret = "returned"
    /\ Len(retval.errors) >= 2
    /\ retval.errors[1][2] > retval.errors[2][2]
    /\ retval.errors[1][1] # retval.errors[2][1]


\* C13 as stated: upload_directory never raises to its caller, whatever
\* max_workers is.
C13_NeverRaises == ret # "raised"

\* C13 amended: for max_workers >= 1 upload_directory never raises, whatever
\* the tree and the failures of the files: what it returns holds the counts
\* and one errors entry per failure.  It raises only for max_workers <= 0 with
\* at least one file to upload (ThreadPoolExecutor rejects the value), and
\* then before any task is submitted.
C13_ReturnsUnlessNoWorkers ==
    /\ ret = "raised" =>
          /\ max_workers <= 0
          /\ pathKind = "dir"
          /\ Len(tree) > 0
          /\ calls = << >>
    /\ ret = "returned" =>
          /\ retval.success \in 0..Len(tree)
          /\ retval.failed \in 0..Len(tree)
          /\ Len(retval.errors) = retval.failed
    /\ (pc \in {"ud_submit", "ud_loop", "ud_tick"}) => max_workers >= 1

C13_Witness ==
    /\ ret = "returned"
    /\ max_workers = 1
    /\ Len(calls) >= 2
    /\ retval.failed = Len(calls)
    /\ \E i \in DOMAIN res : res[i] = "Raised"

\* C14: for an existing directory without regular files upload_directory
\* returns {success: 0, failed: 0, errors: []} and does not raise, whatever
\* max_workers is; no task is submitted, no worker thread is spawned and no
\* store call is made.
C14_EmptyDirectory ==
    (entry # "upload" /\ pathKind = "dir" /\ Len(tree) = 0) =>
        /\ calls = << >>
        /\ wcalls = << >>
        /\ pcalls = << >>
        /\ threads = 0
        /\ ticks = 0
        /\ ret # "raised"
        /\ ret = "returned" => retval = ZeroResults
        /\ pc \in {"click", "cmd", "ud_check", "ud_enum", "ud_done", "exit"}

C14_Witness ==
    /\ entry = "api"
    /\ pathKind = "dir"
    /\ Len(tree) = 0
    /\ max_workers = 0
    /\ ret = "returned"
    /\ retval = ZeroResults


\* calls whose completion the loop has processed
Counted == {i \in DOMAIN st : st[i] = "counted"}

\* C15: the results dict has a single writer: it changes only in a step of
\* the coordinating thread's loop, never in a step of a worker executing
\* upload_file, and under every interleaving each processed completion is
\* counted exactly once, in success or in failed.
C15_SingleWriterNoLostCount ==
    /\ [](entry # "upload" =>
            /\ results.success = Cardinality({i \in Counted : res[i] = "True"})
            /\ results.failed = Cardinality({i \in Counted : res[i] # "True"}))
    /\ [][results' # results => (pc = "ud_loop" /\ pc' = "ud_tick")]_vars
    /\ [][(pc' = pc /\ st' # st) => results' = results]_vars

C15_Witness ==
    /\ threads = 2
    /\ Cardinality({i \in DOMAIN st : st[i] = "done"}) >= 2
    /\ results.success = 1
    /\ pc = "ud_loop"

\* C16: every completed task is aggregated once and ticked once, the tick
\* right after its aggregation, whether it returned True, returned False or
\* raised; when upload_directory returns, the ticks and the aggregated
\* outcomes both number the tasks.
C16_OneTickPerOutcome ==
    /\ [](ticks = Cardinality(Counted) - (IF pc = "ud_tick" THEN 1 ELSE 0))
    /\ [](ret = "returned" =>
            /\ ticks = Len(calls)
            /\ retval.success + retval.failed = ticks)
    /\ [][ticks' # ticks => (ticks' = ticks + 1 /\ pc = "ud_tick")]_vars
    /\ [][\A i \in Counted : i \in DOMAIN st' /\ st'[i] = "counted"]_vars

C16_Witness ==
    /\ ret = "returned"
    /\ ticks = 3
    /\ \E i, j, k \in DOMAIN res :
          res[i] = "True" /\ res[j] = "False" /\ res[k] = "Raised"


\* C17: in the upload_dir command nothing of the batch happens before the
\* bucket was found to exist and the root to be a directory: no file list, no
\* upload_file call, no object write, no return of upload_directory; and in
\* every batch the first task is submitted only when the whole task list is
\* built, each call taking its arguments from it.
C17_ChecksBeforeDispatch ==
    /\ (/\ entry = "upload_dir"
        /\ \/ files_to_upload # << >>
           \/ calls # << >>
           \/ ret # "none"
           \/ pc \in {"ud_check", "ud_enum", "ud_pool", "ud_submit", "ud_loop", "ud_tick"})
          => (bucket_exists /\ pathKind = "dir")
    /\ (entry # "upload" /\ calls # << >>) =>
          /\ pathKind = "dir"
          /\ Len(files_to_upload) = Len(tree)
          /\ Len(calls) <= Len(files_to_upload)
          /\ \A i \in DOMAIN calls : calls[i] = files_to_upload[i]

C17_Witness ==
    /\ entry = "upload_dir"
    /\ Len(files_to_upload) = 3
    /\ Len(calls) = 1
    /\ wcalls[1] = << "ok" >>

\* C18: a call that returned True made exactly one object write, which the
\* store accepted, and exactly one visibility change when make_public was
\* requested and none otherwise.
C18_OneWritePerSuccess ==
    \A i \in DOMAIN res :
        res[i] = "True" =>
            /\ wcalls[i] = << "ok" >>
            /\ pcalls[i] = IF make_public THEN << "ok" >> ELSE << >>

C18_Witness ==
    /\ ret = "returned"
    /\ make_public
    /\ Len(calls) >= 2
    /\ \A i \in DOMAIN res : res[i] = "True"

====
